---- MODULE Spec2Model ----
(***************************************************************************)
(* Model of the deterministic core of the bank statement parser:           *)
(*   extract_and_insight.py : retry_call, validate_balances,               *)
(*                            detect_duplicate_transactions,               *)
(*                            compute_average_daily_balance                *)
(*   ocr_gemini.py          : detect_and_correct_rotation,                 *)
(*                            gemini_vision_ocr                            *)
(*                                                                         *)
(* Python values are tagged records [t, v] so that a field holding a       *)
(* number, None, a string or nothing at all can be told apart:             *)
(*   t = "num"     v is the number                                         *)
(*   t = "none"    None                                                    *)
(*   t = "missing" the key is absent from the dict                         *)
(*   t = "str"     a string; v is its length (summary fields), its         *)
(*                 characters (descriptions) or the numbers of a           *)
(*                 YYYY-MM-DD text (dates; <<>> for any other text)        *)
(*                                                                         *)
(* Money in a summary is counted in 1/400 of a currency unit (Scale), so   *)
(* that sixteenths (exact in binary floating point) and hundredths (the    *)
(* result of round(x, 2)) are both integers.  On inputs that are whole     *)
(* sixteenths the integer arithmetic below gives exactly the results of    *)
(* the float arithmetic of the code.                                       *)
(***************************************************************************)
EXTENDS Integers, Sequences, FiniteSets

VARIABLES
    op,               \* the function invoked in this run
    pc,               \* "call" before it ran, then "return" or "raise"
    summary,          \* validate_balances: argument
    warnings,         \* validate_balances: the list returned
    transactions,     \* detect_duplicate_transactions / compute_average_daily_balance: argument
    opening_balance,  \* compute_average_daily_balance: argument
    result,           \* value returned by the duplicate detector / the calculator / retry_call
    pil_img,          \* detect_and_correct_rotation: argument
    osd,              \* what pytesseract.image_to_osd does on the image
    data,             \* what pytesseract.image_to_data does on each rotation of the image
    rotated,          \* detect_and_correct_rotation: [angle, scored, img] on return
    retries,          \* retry_call: argument
    i,                \* retry_call / gemini_vision_ocr: loop variable
    log,              \* retry_call: outcome of every func() call so far
    images,           \* gemini_vision_ocr: argument, the pages
    pages_text,       \* gemini_vision_ocr: local list of page texts
    meta,             \* gemini_vision_ocr: meta["pages"]
    full_text,        \* gemini_vision_ocr: the text returned
    events            \* gemini_vision_ocr: what the collaborators did on each page so far

vars == <<op, pc, summary, warnings, transactions, opening_balance, result,
          pil_img, osd, data, rotated, retries, i, log,
          images, pages_text, meta, full_text, events>>

ocr_vars == <<images, pages_text, meta, full_text, events>>

-----------------------------------------------------------------------------
(* Python values *)

Num(n) == [t |-> "num", v |-> n]
NoneV == [t |-> "none", v |-> 0]
Missing == [t |-> "missing", v |-> 0]
Str(n) == [t |-> "str", v |-> n]

\* dict.get(key): None when the key is absent
get(field) == IF field.t = "missing" THEN NoneV ELSE field

\* Python truth value of None, a number or a string
truthy(x) ==
    CASE x.t = "num" -> x.v # 0
      [] x.t = "str" -> x.v # 0
      [] OTHER -> FALSE

\* x or 0
or_zero_none_only(x) == IF x.t = "none" THEN Num(0) ELSE x

or_zero(x) == IF truthy(x) THEN x ELSE Num(0)

TypeError == [t |-> "TypeError", v |-> 0]
IsError(x) == x.t = "TypeError"

\* a + b: numbers add, strings concatenate, anything else is a TypeError
add(a, b) ==
    CASE IsError(a) \/ IsError(b) -> TypeError
      [] a.t = "num" /\ b.t = "num" -> Num(a.v + b.v)
      [] a.t = "str" /\ b.t = "str" -> Str(a.v + b.v)
      [] OTHER -> TypeError

\* a - b: defined on numbers only
sub(a, b) ==
    CASE IsError(a) \/ IsError(b) -> TypeError
      [] a.t = "num" /\ b.t = "num" -> Num(a.v - b.v)
      [] OTHER -> TypeError

Abs(n) == IF n < 0 THEN -n ELSE n

-----------------------------------------------------------------------------
(* validate_balances *)

\* 1/Scale is the unit of money: the least common multiple of 16 and 100
Scale == 16 * 25
Cent == Scale \div 100
MaxSixteenths == 3

Sixteenth == Scale \div 16

\* round(n / d, 2) for n counted in 1/Scale and d > 0: the nearest hundredth,
\* a tie going to the even hundredth (Python rounds half to even).  \div
\* rounds down, so q is the hundredth at or below n / d.
round2_div(n, d) ==
    LET q == n \div (Cent * d)
        r == n % (Cent * d)
    IN  CASE 2 * r < Cent * d -> q * Cent
          [] 2 * r > Cent * d -> (q + 1) * Cent
          [] OTHER -> IF q % 2 = 0 THEN q * Cent ELSE (q + 1) * Cent

\* round(x, 2)
round2(x) ==
    CASE IsError(x) -> TypeError
      [] x.t # "num" -> TypeError
      [] OTHER -> Num(round2_div(x.v, 1))

exceeds_tolerance_ge(calc, cb) ==
    LET d == sub(calc, cb)
    IN  IF IsError(d) THEN TypeError
        ELSE [t |-> "bool", v |-> IF Abs(d.v) >= Scale THEN 1 ELSE 0]

\* abs(calc - cb) > 1.0
exceeds_tolerance(calc, cb) ==
    LET d == sub(calc, cb)
    IN  IF IsError(d) THEN TypeError
        ELSE [t |-> "bool", v |-> IF Abs(d.v) > Scale THEN 1 ELSE 0]

MismatchWarning(ob, tc, td, calc, cb) ==
    [kind |-> "Balance mismatch", ob |-> ob, tc |-> tc, td |-> td, calc |-> calc, cb |-> cb]

ErrorWarning ==
    [kind |-> "Balance validation error", ob |-> NoneV, tc |-> NoneV, td |-> NoneV,
     calc |-> NoneV, cb |-> NoneV]

validate_balances(s) ==
    IF s.t # "dict" THEN <<ErrorWarning>>       \* None.get raises AttributeError
    ELSE
        LET ob == or_zero(get(s.opening_balance))
            tc == or_zero(get(s.total_credits))
            td == or_zero(get(s.total_debits))
            cb == or_zero(get(s.closing_balance))
            calc == round2(sub(add(ob, tc), td))
            over == exceeds_tolerance(calc, cb)
        IN  CASE IsError(calc) -> <<ErrorWarning>>
              [] IsError(over) -> <<ErrorWarning>>
              [] over.v = 1 -> <<MismatchWarning(ob, tc, td, calc, cb)>>
              [] OTHER -> <<>>

Dict(ob, tc, td, cb) ==
    [t |-> "dict", opening_balance |-> ob, total_credits |-> tc,
     total_debits |-> td, closing_balance |-> cb]

NotADict == [t |-> "none", opening_balance |-> Missing, total_credits |-> Missing,
             total_debits |-> Missing, closing_balance |-> Missing]

NonNumbers == {NoneV, Missing, Str(0), Str(3)}
SmallMoney == {Num(k * Sixteenth) : k \in 0..MaxSixteenths}
ClosingMoney == SmallMoney \cup {Num(Scale + k * Sixteenth) : k \in 0..MaxSixteenths}

\* opening=42000, credits=30000, debits=33500 with closing 38500 and 38000
ExampleSummaries ==
    {Dict(Num(42000 * Scale), Num(30000 * Scale), Num(33500 * Scale), Num(c * Scale)) :
        c \in {38500, 38000}}

SummaryInputs ==
    {Dict(ob, tc, td, cb) :
        ob \in SmallMoney \cup NonNumbers, tc \in SmallMoney \cup NonNumbers,
        td \in SmallMoney \cup NonNumbers, cb \in ClosingMoney \cup NonNumbers}
    \cup ExampleSummaries \cup {NotADict}

-----------------------------------------------------------------------------
(* detect_duplicate_transactions *)

MaxDupTxs == 3

Tx(date, amount, description, balance) ==
    [date |-> date, amount |-> amount, description |-> description, balance |-> balance]

is_space(c) == c = " "

lower_char(c) ==
    CASE c = "A" -> "a"
      [] c = "E" -> "e"
      [] c = "N" -> "n"
      [] c = "R" -> "r"
      [] c = "T" -> "t"
      [] OTHER -> c

\* str.lower()
lower(s) == [k \in 1..Len(s) |-> lower_char(s[k])]

RECURSIVE lstrip(_)
lstrip(s) == IF s # <<>> /\ is_space(Head(s)) THEN lstrip(Tail(s)) ELSE s

RECURSIVE rstrip(_)
rstrip(s) ==
    IF s # <<>> /\ is_space(s[Len(s)]) THEN rstrip(SubSeq(s, 1, Len(s) - 1)) ELSE s

\* str.strip()
strip(s) == rstrip(lstrip(s))

AttributeError == [t |-> "AttributeError", v |-> 0]

\* (tx.get("description") or "").strip().lower(): only a str has .strip
normalize(description) ==
    LET d == get(description)
    IN  CASE d.t = "str" -> Str(lower(strip(d.v)))
          [] d.t = "num" /\ d.v # 0 -> AttributeError
          [] OTHER -> Str(<<>>)

key(tx) == <<get(tx.date), get(tx.amount), normalize(tx.description)>>

\* the loop body: the state is [seen, duplicates, raised]
dup_step_adjacent(st, tx) ==
    CASE st.raised -> st
      [] normalize(tx.description).t = "AttributeError" -> [st EXCEPT !.raised = TRUE]
      [] key(tx) \in st.seen -> [st EXCEPT !.duplicates = @ + 1, !.seen = {key(tx)}]
      [] OTHER -> [st EXCEPT !.seen = {key(tx)}]

dup_step(st, tx) ==
    CASE st.raised -> st
      [] normalize(tx.description).t = "AttributeError" -> [st EXCEPT !.raised = TRUE]
      [] key(tx) \in st.seen -> [st EXCEPT !.duplicates = @ + 1]
      [] OTHER -> [st EXCEPT !.seen = @ \cup {key(tx)}]

RECURSIVE dup_loop(_, _)
dup_loop(st, txs) ==
    IF txs = <<>> THEN st ELSE dup_loop(dup_step(st, Head(txs)), Tail(txs))

detect_duplicate_transactions(txs) ==
    LET st == dup_loop([seen |-> {}, duplicates |-> 0, raised |-> FALSE], txs)
    IN  IF st.raised THEN AttributeError ELSE Num(st.duplicates)

Date(y, m, d) == Str(<<y, m, d>>)

DupDescriptions ==
    {Missing, NoneV, Str(<<" ">>), Str(<<"a">>), Str(<<"A", " ">>), Num(12345)}

DupTxs ==
    {Tx(Date(2025, 9, 1), Num(a), d, Missing) : a \in {100, 50}, d \in DupDescriptions}
    \cup {Tx(Date(2025, 9, 2), Num(100), Str(<<"a">>), Missing)}

\* [(2025-09-01, 100, "rent"), (2025-09-01, 100, "RENT "), (2025-09-02, 50, "food")]
ExampleDupList ==
    << Tx(Date(2025, 9, 1), Num(100), Str(<<"r", "e", "n", "t">>), Missing),
       Tx(Date(2025, 9, 1), Num(100), Str(<<"R", "E", "N", "T", " ">>), Missing),
       Tx(Date(2025, 9, 2), Num(50), Str(<<"f", "o", "o", "d">>), Missing) >>

SeqsUpTo(S, n) == UNION {[1..k -> S] : k \in 0..n}

DupInputs == SeqsUpTo(DupTxs, MaxDupTxs) \cup {ExampleDupList}

-----------------------------------------------------------------------------
(* compute_average_daily_balance *)

MaxAdbTxs == 3

is_leap(y) == y % 4 = 0 /\ (y % 100 # 0 \/ y % 400 = 0)

days_in_month(y, m) ==
    CASE m = 2 -> IF is_leap(y) THEN 29 ELSE 28
      [] m \in {4, 6, 9, 11} -> 30
      [] OTHER -> 31

RECURSIVE days_before_month(_, _)
days_before_month(y, m) ==
    IF m = 1 THEN 0 ELSE days_before_month(y, m - 1) + days_in_month(y, m - 1)

days_before_year(y) ==
    (y - 1) * 365 + (y - 1) \div 4 - (y - 1) \div 100 + (y - 1) \div 400

\* datetime.fromisoformat(tx["date"]): the day number of the date (toordinal),
\* or 0 when the lookup or the parse raises (KeyError, TypeError, ValueError)
fromisoformat(date) ==
    IF date.t # "str" \/ Len(date.v) # 3 THEN 0
    ELSE LET y == date.v[1]
             m == date.v[2]
             d == date.v[3]
         IN  IF y \in 1..9999 /\ m \in 1..12 /\ d \in 1..days_in_month(y, m)
             THEN days_before_year(y) + days_before_month(y, m) + d
             ELSE 0

\* the try block of the parsing loop: the tx is kept when tx["date"] parses
\* and tx["balance"] exists
parses(tx) == fromisoformat(tx.date) # 0 /\ tx.balance.t # "missing"

\* txs.append((datetime.fromisoformat(tx["date"]), tx["balance"]))
RECURSIVE parse_all(_)
parse_all(txs) ==
    IF txs = <<>> THEN <<>>
    ELSE LET tx == Head(txs)
         IN  IF parses(tx)
             THEN <<[date |-> fromisoformat(tx.date), balance |-> tx.balance]>>
                  \o parse_all(Tail(txs))
             ELSE parse_all(Tail(txs))

\* list.sort(key=lambda x: x[0]) is stable: p goes after the entries dated
\* at or before it
RECURSIVE insert_sorted(_, _)
insert_sorted(sorted, p) ==
    IF sorted = <<>> THEN <<p>>
    ELSE IF sorted[Len(sorted)].date <= p.date THEN Append(sorted, p)
    ELSE Append(insert_sorted(SubSeq(sorted, 1, Len(sorted) - 1), p), sorted[Len(sorted)])

RECURSIVE sort_by_date(_)
sort_by_date(ps) ==
    IF ps = <<>> THEN <<>>
    ELSE insert_sorted(sort_by_date(SubSeq(ps, 1, Len(ps) - 1)), ps[Len(ps)])

days_held_no_floor(date, prev_date) == date - prev_date

\* (date - prev_date).days or 1
days_held(date, prev_date) ==
    IF date - prev_date # 0 THEN date - prev_date ELSE 1

\* the weighting loop over txs[1:], then total_balance += prev_balance
RECURSIVE weighted_total(_, _)
weighted_total(ps, k) ==
    IF k = Len(ps) THEN ps[k].balance.v
    ELSE ps[k].balance.v * days_held(ps[k + 1].date, ps[k].date) + weighted_total(ps, k + 1)

compute_average_daily_balance(txs, opening) ==
    IF txs = <<>> THEN (IF truthy(opening) THEN opening ELSE Num(0))
    ELSE LET ps == sort_by_date(parse_all(txs))
             total_days == ps[Len(ps)].date - ps[1].date + 1
         IN  CASE ps = <<>> -> opening
               [] \E k \in 1..Len(ps) : ps[k].balance.t # "num" -> TypeError
               [] OTHER -> Num(round2_div(weighted_total(ps, 1), total_days))

AdbDates ==
    {Date(2025, 9, 1), Date(2025, 9, 30), Date(2025, 10, 1), Date(2025, 9, 31), NoneV, Missing}
AdbBalances == {Num(100 * Scale), Num(250 * Scale), NoneV}
AdbTxs == {Tx(d, Num(0), Str(<<>>), b) : d \in AdbDates, b \in AdbBalances}

\* balance 72000 on day 1 and 38500 on day 10, in both orders
ExampleAdbLists ==
    LET a == Tx(Date(2025, 9, 1), Num(0), Str(<<>>), Num(72000 * Scale))
        b == Tx(Date(2025, 9, 10), Num(0), Str(<<>>), Num(38500 * Scale))
    IN  {<<a, b>>, <<b, a>>, <<a>>}

AdbInputs == SeqsUpTo(AdbTxs, MaxAdbTxs) \cup ExampleAdbLists
OpeningInputs == {NoneV, Num(42000 * Scale)}

-----------------------------------------------------------------------------
(* detect_and_correct_rotation *)

\* An image is [turn, exif]: turn is how far, in degrees counter-clockwise,
\* its pixels are turned from the pixels of the file; exif is its EXIF
\* orientation tag (1 = none).
Angles == <<0, 90, 180, 270>>
AngleSet == {Angles[k] : k \in 1..Len(Angles)}

Raise == [t |-> "raise", v |-> <<>>]
Confs(cs) == [t |-> "dict", v |-> cs]

\* rot(bgr_img, a): 90 is ROTATE_90_COUNTERCLOCKWISE, 270 is ROTATE_90_CLOCKWISE
rot(img, a) == [img EXCEPT !.turn = (@ + a) % 360]

\* ImageOps.exif_transpose: 3 -> ROTATE_180, 6 -> ROTATE_270, 8 -> ROTATE_90,
\* and the tag is removed
exif_transpose(img) ==
    LET a == CASE img.exif = 3 -> 180
               [] img.exif = 6 -> 270
               [] img.exif = 8 -> 90
               [] OTHER -> 0
    IN  [turn |-> (img.turn + a) % 360, exif |-> 1]

\* osd_angle: None unless the detector gives one of the four angles;
\* osd.get("rotate", 0) is 0 when the key is absent
osd_angle(o) ==
    CASE o.t = "raise" -> NoneV
      [] o.t = "missing" -> Num(0)
      [] o.t = "num" /\ o.v \in AngleSet -> Num(o.v)
      [] OTHER -> NoneV

\* a score is the fraction n / d
Score(n, d) == [n |-> n, d |-> d]
score_gt(a, b) == a.n * b.d > b.n * a.d
score_lt(a, b) == a.n * b.d < b.n * a.d

RECURSIVE sum(_)
sum(cs) == IF cs = <<>> THEN 0 ELSE Head(cs) + sum(Tail(cs))

\* [int(c) for c in d["conf"] if c not in ("-1", -1)]
RECURSIVE recognized(_)
recognized(cs) ==
    IF cs = <<>> THEN <<>>
    ELSE IF Head(cs) = -1 THEN recognized(Tail(cs))
    ELSE <<Head(cs)>> \o recognized(Tail(cs))

\* avg_conf: the mean confidence of the recognized tokens, -1 without any
\* or when the recognition pass raises
avg_conf(d) ==
    IF d.t = "raise" THEN Score(-1, 1)
    ELSE LET confs == recognized(d.v)
         IN  IF confs # <<>> THEN Score(sum(confs), Len(confs)) ELSE Score(-1, 1)

RECURSIVE max_last(_, _, _)
max_last(keys, scores, best) ==
    IF keys = <<>> THEN best
    ELSE IF ~score_lt(scores[Head(keys)], scores[best])
         THEN max_last(Tail(keys), scores, Head(keys))
         ELSE max_last(Tail(keys), scores, best)

RECURSIVE min_first(_, _, _)
min_first(keys, scores, best) ==
    IF keys = <<>> THEN best
    ELSE IF score_lt(scores[Head(keys)], scores[best])
         THEN min_first(Tail(keys), scores, Head(keys))
         ELSE min_first(Tail(keys), scores, best)

\* max(scores, key=scores.get) walks the keys in insertion order and keeps
\* the first of the greatest
RECURSIVE max_by_score(_, _, _)
max_by_score(keys, scores, best) ==
    IF keys = <<>> THEN best
    ELSE IF score_gt(scores[Head(keys)], scores[best])
         THEN max_by_score(Tail(keys), scores, Head(keys))
         ELSE max_by_score(Tail(keys), scores, best)

NoScores == [a \in AngleSet |-> Score(-1, 1)]

detect_and_correct_rotation(img, o, d) ==
    LET bgr == exif_transpose(img)
        first == osd_angle(o)
        scores == [a \in AngleSet |-> avg_conf(d[a])]
        angle == IF first.t = "none"
                 THEN max_by_score(Tail(Angles), scores, Head(Angles))
                 ELSE first.v
    IN  [angle |-> angle,
         scored |-> first.t = "none",
         scores |-> IF first.t = "none" THEN scores ELSE NoScores,
         img |-> IF angle # 0 THEN rot(bgr, angle) ELSE bgr]

OsdOutcomes == {Raise, Missing, Num(0), Num(90), Num(180), Num(270), Num(45)}
DataOutcomes ==
    {Raise, Confs(<<>>), Confs(<<-1>>), Confs(<<40>>), Confs(<<90>>),
     Confs(<<40, 90>>), Confs(<<-1, 90>>)}
ImageInputs == {[turn |-> 0, exif |-> e] : e \in {1, 6}}

-----------------------------------------------------------------------------
(* retry_call *)

MaxRetries == 3

Ok(v) == [t |-> "ok", v |-> v]
Exc(e) == [t |-> "exc", v |-> e]
FuncOutcomes == {Ok("r1"), Ok("r2"), Exc("e1"), Exc("e2")}

\* for i in range(retries + 1)
attempt_allowed(k, n) == k < n + 1

may_retry_off_by_one(k, n) == k <= n

\* if i < retries
may_retry(k, n) == k < n

-----------------------------------------------------------------------------
(* The runs: one call of one function on drawn arguments *)

NoImage == [turn |-> 0, exif |-> 1]
NoData == [a \in AngleSet |-> Raise]
NotRotated == [angle |-> 0, scored |-> FALSE, scores |-> NoScores, img |-> NoImage]

(* gemini_vision_ocr *)

MaxPages == 3

MODEL_VISION == "gemini-2.5-flash-lite"
PAGE_BREAK == "---PAGE_BREAK---"

\* A page is [mode, img, osd, data]: the PIL mode of the image, its pixels
\* and tag, and what the two pytesseract passes do on it.
Page(mode, img, o, d) == [mode |-> mode, img |-> img, osd |-> o, data |-> d]

\* detect_and_correct_rotation(img) as the loop calls it: cv2.cvtColor
\* (RGB2BGR) raises on an image that has no colour channels
correct_page(page) ==
    IF page.mode # "RGB" THEN [t |-> "raise", v |-> NotRotated]
    ELSE [t |-> "ok", v |-> detect_and_correct_rotation(page.img, page.osd, page.data)]

\* Python falsehood of None, a number or a character string
falsy(x) ==
    \/ x.t = "none"
    \/ x.t = "num" /\ x.v = 0
    \/ x.t = "str" /\ x.v = <<>>

\* getattr(response, "text", "") or ""
text_of(response) ==
    IF response.t = "missing" \/ falsy(response) THEN Str(<<>>) ELSE response

SuccessEntry(k) ==
    [page |-> k, keys |-> {"page", "source", "rotation_applied"},
     source |-> MODEL_VISION, rotation_applied |-> TRUE, error |-> ""]

ErrorEntry(k, e) ==
    [page |-> k, keys |-> {"page", "error"},
     source |-> "", rotation_applied |-> FALSE, error |-> e]

page_failed_no_text(k, e) == [texts |-> <<>>, entries |-> <<ErrorEntry(k, e)>>]

\* the except branch: what it appends to pages_text and to meta["pages"]
page_failed(k, e) == [texts |-> << <<>> >>, entries |-> <<ErrorEntry(k, e)>>]

\* the body of the loop on page k: out.encode is what image_to_bytes does,
\* out.response what client.models.generate_content does
ocr_page(page, out, k) ==
    LET text == text_of(out.response)
    IN  CASE correct_page(page).t = "raise" -> page_failed(k, "cv2.error")
          [] out.encode = "raise" -> page_failed(k, "OSError")
          [] out.response.t = "raise" -> page_failed(k, "APIError")
          [] text.t # "str" -> page_failed(k, "AttributeError")
          [] OTHER -> [texts |-> <<strip(text.v)>>, entries |-> <<SuccessEntry(k)>>]

\* "\n\n---PAGE_BREAK---\n\n".join(pages_text)
RECURSIVE join(_)
join(texts) ==
    IF texts = <<>> THEN <<>>
    ELSE IF Len(texts) = 1 THEN texts[1]
    ELSE texts[1] \o <<PAGE_BREAK>> \o join(Tail(texts))

SampleData ==
    [a \in AngleSet |->
        CASE a = 0 -> Confs(<<40>>)
          [] a = 90 -> Confs(<<90>>)
          [] a = 180 -> Raise
          [] OTHER -> Confs(<<>>)]

PageInputs ==
    {Page("RGB", [turn |-> 0, exif |-> 1], Raise, SampleData),
     Page("RGB", [turn |-> 0, exif |-> 6], Num(0), NoData),
     Page("L", [turn |-> 0, exif |-> 1], Raise, NoData)}

Responses ==
    {Raise, Missing, NoneV, Str(<<>>), Str(<<" ", "a", " ">>), Str(<<"b">>), Num(7)}

PageOutcomes ==
    {[encode |-> "raise", response |-> Raise]}
    \cup {[encode |-> "ok", response |-> r] : r \in Responses}

OcrIdle ==
    /\ images = <<>>
    /\ pages_text = <<>>
    /\ meta = <<>>
    /\ full_text = <<>>
    /\ events = <<>>

InitValidate ==
    /\ op = "validate_balances"
    /\ pc = "call"
    /\ summary \in SummaryInputs
    /\ warnings = <<>>
    /\ transactions = <<>>
    /\ opening_balance = NoneV
    /\ result = NoneV
    /\ pil_img = NoImage
    /\ osd = Raise
    /\ data = NoData
    /\ rotated = NotRotated
    /\ retries = 0
    /\ i = 0
    /\ log = <<>>
    /\ OcrIdle

InitDuplicates ==
    /\ op = "detect_duplicate_transactions"
    /\ pc = "call"
    /\ summary = NotADict
    /\ warnings = <<>>
    /\ transactions \in DupInputs
    /\ opening_balance = NoneV
    /\ result = NoneV
    /\ pil_img = NoImage
    /\ osd = Raise
    /\ data = NoData
    /\ rotated = NotRotated
    /\ retries = 0
    /\ i = 0
    /\ log = <<>>
    /\ OcrIdle

InitAdb ==
    /\ op = "compute_average_daily_balance"
    /\ pc = "call"
    /\ summary = NotADict
    /\ warnings = <<>>
    /\ transactions \in AdbInputs
    /\ opening_balance \in OpeningInputs
    /\ result = NoneV
    /\ pil_img = NoImage
    /\ osd = Raise
    /\ data = NoData
    /\ rotated = NotRotated
    /\ retries = 0
    /\ i = 0
    /\ log = <<>>
    /\ OcrIdle

InitRotation ==
    /\ op = "detect_and_correct_rotation"
    /\ pc = "call"
    /\ summary = NotADict
    /\ warnings = <<>>
    /\ transactions = <<>>
    /\ opening_balance = NoneV
    /\ result = NoneV
    /\ pil_img \in ImageInputs
    /\ osd \in OsdOutcomes
    /\ data \in [AngleSet -> DataOutcomes]
    /\ rotated = NotRotated
    /\ retries = 0
    /\ i = 0
    /\ log = <<>>
    /\ OcrIdle

InitRetry ==
    /\ op = "retry_call"
    /\ pc = "call"
    /\ summary = NotADict
    /\ warnings = <<>>
    /\ transactions = <<>>
    /\ opening_balance = NoneV
    /\ result = NoneV
    /\ pil_img = NoImage
    /\ osd = Raise
    /\ data = NoData
    /\ rotated = NotRotated
    /\ retries \in -1..MaxRetries
    /\ i = 0
    /\ log = <<>>
    /\ OcrIdle

InitOcr ==
    /\ op = "gemini_vision_ocr"
    /\ pc = "call"
    /\ summary = NotADict
    /\ warnings = <<>>
    /\ transactions = <<>>
    /\ opening_balance = NoneV
    /\ result = NoneV
    /\ pil_img = NoImage
    /\ osd = Raise
    /\ data = NoData
    /\ rotated = NotRotated
    /\ retries = 0
    /\ i = 1
    /\ log = <<>>
    /\ images \in SeqsUpTo(PageInputs, MaxPages)
    /\ pages_text = <<>>
    /\ meta = <<>>
    /\ full_text = <<>>
    /\ events = <<>>

Init == InitValidate \/ InitDuplicates \/ InitAdb \/ InitRotation \/ InitRetry \/ InitOcr

Validate ==
    /\ op = "validate_balances"
    /\ pc = "call"
    /\ warnings' = validate_balances(summary)
    /\ pc' = "return"
    /\ UNCHANGED <<op, summary, transactions, opening_balance, result, pil_img, osd,
                   data, rotated, retries, i, log>>
    /\ UNCHANGED ocr_vars

DetectDuplicates ==
    /\ op = "detect_duplicate_transactions"
    /\ pc = "call"
    /\ result' = detect_duplicate_transactions(transactions)
    /\ pc' = IF result'.t = "AttributeError" THEN "raise" ELSE "return"
    /\ UNCHANGED <<op, summary, warnings, transactions, opening_balance, pil_img, osd,
                   data, rotated, retries, i, log>>
    /\ UNCHANGED ocr_vars

ComputeAdb ==
    /\ op = "compute_average_daily_balance"
    /\ pc = "call"
    /\ result' = compute_average_daily_balance(transactions, opening_balance)
    /\ pc' = IF result'.t = "TypeError" THEN "raise" ELSE "return"
    /\ UNCHANGED <<op, summary, warnings, transactions, opening_balance, pil_img, osd,
                   data, rotated, retries, i, log>>
    /\ UNCHANGED ocr_vars

Rotate ==
    /\ op = "detect_and_correct_rotation"
    /\ pc = "call"
    /\ rotated' = detect_and_correct_rotation(pil_img, osd, data)
    /\ pc' = "return"
    /\ UNCHANGED <<op, summary, warnings, transactions, opening_balance, result, pil_img,
                   osd, data, retries, i, log>>
    /\ UNCHANGED ocr_vars

\* range(retries + 1) is exhausted: the function falls off its end
RetryFallThrough ==
    /\ op = "retry_call"
    /\ pc = "call"
    /\ ~attempt_allowed(i, retries)
    /\ result' = NoneV
    /\ pc' = "return"
    /\ UNCHANGED <<op, summary, warnings, transactions, opening_balance, pil_img, osd,
                   data, rotated, retries, i, log>>
    /\ UNCHANGED ocr_vars

\* return func()
RetrySucceed ==
    /\ op = "retry_call"
    /\ pc = "call"
    /\ attempt_allowed(i, retries)
    /\ \E o \in FuncOutcomes :
        /\ o.t = "ok"
        /\ log' = Append(log, o)
        /\ result' = o
    /\ pc' = "return"
    /\ UNCHANGED <<op, summary, warnings, transactions, opening_balance, pil_img, osd,
                   data, rotated, retries, i>>
    /\ UNCHANGED ocr_vars

\* func() raises and i < retries: print, then time.sleep(delay)
RetryFail ==
    /\ op = "retry_call"
    /\ pc = "call"
    /\ attempt_allowed(i, retries)
    /\ may_retry(i, retries)
    /\ \E o \in FuncOutcomes :
        /\ o.t = "exc"
        /\ log' = Append(log, o)
    /\ pc' = "sleep"
    /\ UNCHANGED <<op, summary, warnings, transactions, opening_balance, result, pil_img,
                   osd, data, rotated, retries, i>>
    /\ UNCHANGED ocr_vars

\* func() raises in the last round: raise
RetryGiveUp ==
    /\ op = "retry_call"
    /\ pc = "call"
    /\ attempt_allowed(i, retries)
    /\ ~may_retry(i, retries)
    /\ \E o \in FuncOutcomes :
        /\ o.t = "exc"
        /\ log' = Append(log, o)
        /\ result' = o
    /\ pc' = "raise"
    /\ UNCHANGED <<op, summary, warnings, transactions, opening_balance, pil_img, osd,
                   data, rotated, retries, i>>
    /\ UNCHANGED ocr_vars

\* the sleep ends and the loop goes to its next round
RetryNext ==
    /\ op = "retry_call"
    /\ pc = "sleep"
    /\ i' = i + 1
    /\ pc' = "call"
    /\ UNCHANGED <<op, summary, warnings, transactions, opening_balance, result, pil_img,
                   osd, data, rotated, retries, log>>
    /\ UNCHANGED ocr_vars

NextRetry == RetryFallThrough \/ RetrySucceed \/ RetryFail \/ RetryGiveUp \/ RetryNext

\* one round of the loop over enumerate(images, start=1)
OcrPage ==
    /\ op = "gemini_vision_ocr"
    /\ pc = "call"
    /\ i <= Len(images)
    /\ \E out \in PageOutcomes :
        /\ pages_text' = pages_text \o ocr_page(images[i], out, i).texts
        /\ meta' = meta \o ocr_page(images[i], out, i).entries
        /\ events' = Append(events, out)
    /\ i' = i + 1
    /\ UNCHANGED <<op, pc, summary, warnings, transactions, opening_balance, result,
                   pil_img, osd, data, rotated, retries, log, images, full_text>>

\* the loop is over: join the texts and return (full_text, meta)
OcrReturn ==
    /\ op = "gemini_vision_ocr"
    /\ pc = "call"
    /\ i > Len(images)
    /\ full_text' = join(pages_text)
    /\ pc' = "return"
    /\ UNCHANGED <<op, summary, warnings, transactions, opening_balance, result,
                   pil_img, osd, data, rotated, retries, i, log, images, pages_text,
                   meta, events>>

NextOcr == OcrPage \/ OcrReturn

Next == Validate \/ DetectDuplicates \/ ComputeAdb \/ Rotate \/ NextRetry \/ NextOcr

Spec == Init /\ [][Next]_vars
SpecValidate == InitValidate /\ [][Validate]_vars
SpecDuplicates == InitDuplicates /\ [][DetectDuplicates]_vars
SpecAdb == InitAdb /\ [][ComputeAdb]_vars
SpecRotation == InitRotation /\ [][Rotate]_vars
SpecRetry == InitRetry /\ [][NextRetry]_vars
SpecOcr == InitOcr /\ [][NextOcr]_vars

-----------------------------------------------------------------------------
(* Claims *)

Returned(f) == op = f /\ pc = "return"
Finished(f) == op = f /\ pc # "call"

NumberOrAbsent(f) == f.t \in {"num", "none", "missing"}
ValueOf(f) == IF f.t = "num" THEN f.v ELSE 0
SummaryFields(s) ==
    {s.opening_balance, s.total_credits, s.total_debits, s.closing_balance}
NumericSummary(s) == s.t = "dict" /\ \A f \in SummaryFields(s) : NumberOrAbsent(f)

\* c is x rounded to two decimals: the nearest hundredth, the even one on a tie
IsRounded(x, c) ==
    /\ c % Cent = 0
    /\ 2 * Abs(x - c) <= Cent
    /\ 2 * Abs(x - c) = Cent => (c \div Cent) % 2 = 0

Computed(s) ==
    ValueOf(s.opening_balance) + ValueOf(s.total_credits) - ValueOf(s.total_debits)

Mismatch(s, c) == Abs(c - ValueOf(s.closing_balance))

\* C1: for a summary whose four fields are numbers (None or missing counting
\* as 0), validate_balances returns exactly one warning when
\* abs(round(opening + credits - debits, 2) - closing) > 1.00, carrying the
\* operands and the computed value, and the empty list otherwise; a mismatch
\* of exactly 1.00 gives no warning, and the example summary with closing
\* 38500 gives none.
C1_ValidateTolerance ==
    (Returned("validate_balances") /\ NumericSummary(summary)) =>
        /\ \E c \in (Computed(summary) - Cent)..(Computed(summary) + Cent) :
            /\ IsRounded(Computed(summary), c)
            /\ IF Mismatch(summary, c) > Scale
               THEN /\ Len(warnings) = 1
                    /\ warnings[1].kind = "Balance mismatch"
                    /\ warnings[1].calc = Num(c)
                    /\ warnings[1].cb = Num(ValueOf(summary.closing_balance))
               ELSE warnings = <<>>
        /\ summary.closing_balance = Num(38500 * Scale) => warnings = <<>>
        /\ summary.closing_balance = Num(38000 * Scale) => Len(warnings) = 1

\* a mismatch of exactly 1.00 with credits and debits at work
C1_Witness ==
    /\ Returned("validate_balances")
    /\ NumericSummary(summary)
    /\ summary.total_credits.t = "num" /\ summary.total_credits.v # 0
    /\ summary.total_debits.t = "num" /\ summary.total_debits.v # 0
    /\ \E c \in (Computed(summary) - Cent)..(Computed(summary) + Cent) :
        IsRounded(Computed(summary), c) /\ Mismatch(summary, c) = Scale
    /\ warnings = <<>>

IndexPermutations(n) == {p \in [1..n -> 1..n] : \A a, b \in 1..n : p[a] = p[b] => a = b}
Permuted(seq, p) == [k \in 1..Len(seq) |-> seq[p[k]]]

\* the transactions whose key already occurred earlier in the list
Repeats(txs) == {k \in 1..Len(txs) : \E j \in 1..(k - 1) : key(txs[j]) = key(txs[k])}

\* C2: on transactions whose description is text or absent,
\* detect_duplicate_transactions returns the number of transactions whose
\* key (date, amount, description trimmed and lower-cased) occurred earlier
\* in the list, which is len(transactions) minus the number of distinct
\* keys; every permutation of the list gets the same count, and the list
\* ("rent", "RENT ", "food") gets 1.
C2_DuplicateCount ==
    Returned("detect_duplicate_transactions") =>
        /\ result = Num(Cardinality(Repeats(transactions)))
        /\ result.v = Len(transactions)
                      - Cardinality({key(transactions[k]) : k \in 1..Len(transactions)})
        /\ \A p \in IndexPermutations(Len(transactions)) :
            detect_duplicate_transactions(Permuted(transactions, p)) = result
        /\ transactions = ExampleDupList => result = Num(1)

\* three transactions of one key, written three ways, counted twice
C2_Witness ==
    /\ Returned("detect_duplicate_transactions")
    /\ Len(transactions) = MaxDupTxs
    /\ result.v = MaxDupTxs - 1
    /\ Cardinality({transactions[k].description : k \in 1..MaxDupTxs}) = MaxDupTxs

\* C7: detect_duplicate_transactions never raises, whatever the description
\* of an entry is; a missing or None description is normalized to the empty
\* string.
C7_DuplicatesNeverRaise ==
    Finished("detect_duplicate_transactions") =>
        /\ pc = "return"
        /\ \A k \in 1..Len(transactions) :
            transactions[k].description.t \in {"missing", "none"} =>
                key(transactions[k])[3] = Str(<<>>)

\* the transactions the calculator is specified on: dates that parse, and
\* balances that are numbers
Usable(tx) == fromisoformat(tx.date) # 0 /\ tx.balance.t = "num"
AllUsable(txs) == txs # <<>> /\ \A k \in 1..Len(txs) : Usable(txs[k])
DayOf(txs, k) == fromisoformat(txs[k].date)

\* p lists the transactions by ascending date, those of one date in their
\* order in the list
ByDate(txs, p) ==
    \A a, b \in 1..Len(txs) :
        a < b => \/ DayOf(txs, p[a]) < DayOf(txs, p[b])
                 \/ DayOf(txs, p[a]) = DayOf(txs, p[b]) /\ p[a] < p[b]

Max(a, b) == IF a >= b THEN a ELSE b

\* the sum over consecutive pairs of earlier_balance * max(day_gap, 1), from
\* pair k on, plus the last balance
RECURSIVE WeightedSum(_, _, _)
WeightedSum(txs, p, k) ==
    IF k >= Len(txs) THEN txs[p[Len(txs)]].balance.v
    ELSE txs[p[k]].balance.v * Max(DayOf(txs, p[k + 1]) - DayOf(txs, p[k]), 1)
         + WeightedSum(txs, p, k + 1)

\* r is n / d rounded to two decimals
IsRoundedQuotient(n, d, r) ==
    /\ r % Cent = 0
    /\ 2 * Abs(n - r * d) <= Cent * d
    /\ 2 * Abs(n - r * d) = Cent * d => (r \div Cent) % 2 = 0

\* C3: for a non-empty list of transactions with parsable dates (and number
\* balances) the result is round((sum over consecutive date-sorted pairs of
\* earlier_balance * max(day_gap, 1) + last_balance) / total_days, 2) with
\* total_days = (last_date - first_date).days + 1; 72000 on day 1 and 38500
\* on day 10 give 68650.0, and a single transaction gives its balance.
C3_AverageDailyBalance ==
    (Returned("compute_average_daily_balance") /\ AllUsable(transactions)) =>
        /\ \E p \in IndexPermutations(Len(transactions)) :
            /\ ByDate(transactions, p)
            /\ result.t = "num"
            /\ IsRoundedQuotient(
                   WeightedSum(transactions, p, 1),
                   DayOf(transactions, p[Len(transactions)]) - DayOf(transactions, p[1]) + 1,
                   result.v)
        /\ transactions \in ExampleAdbLists /\ Len(transactions) = 2 =>
               result = Num(68650 * Scale)
        /\ Len(transactions) = 1 => result = transactions[1].balance

\* three transactions out of date order, two of them on one day, the result
\* not a whole number
C3_Witness ==
    /\ Returned("compute_average_daily_balance")
    /\ AllUsable(transactions)
    /\ Len(transactions) = 3
    /\ DayOf(transactions, 1) > DayOf(transactions, 2)
    /\ DayOf(transactions, 2) < DayOf(transactions, 3)
    /\ transactions[1].balance # transactions[2].balance
    /\ result.t = "num" /\ result.v % Scale # 0

SkippedTx(tx) == ~parses(tx)

\* C6: compute_average_daily_balance never raises; without transactions it
\* returns the opening balance (0 if that is absent), and when every
\* transaction was skipped for its date it returns the opening balance.
C6_AdbNeverRaises ==
    Finished("compute_average_daily_balance") =>
        /\ pc = "return"
        /\ transactions = <<>> =>
               result = (IF opening_balance.t = "none" THEN Num(0) ELSE opening_balance)
        /\ (transactions # <<>> /\ \A k \in 1..Len(transactions) : SkippedTx(transactions[k]))
               => result = opening_balance

Balances(txs) == {txs[k].balance.v : k \in 1..Len(txs)}

\* C9: for every non-empty list of transactions with parsable dates the
\* result, a mean weighted by days, lies between the smallest and the
\* largest transaction balance.
C9_AdbWithinBalances ==
    (Returned("compute_average_daily_balance") /\ AllUsable(transactions)) =>
        /\ \E lo, hi \in Balances(transactions) : lo <= result.v /\ result.v <= hi

HasStr(s) == \E f \in SummaryFields(s) : f.t = "str"
HasText(s) == \E f \in SummaryFields(s) : f.t = "str" /\ f.v # 0

\* the summary with every empty string taken out
WithoutEmpty(s) ==
    LET drop(f) == IF f = Str(0) THEN Missing ELSE f
    IN  [s EXCEPT !.opening_balance = drop(@), !.total_credits = drop(@),
                  !.total_debits = drop(@), !.closing_balance = drop(@)]

\* C8 as stated: validate_balances never raises, a non-numeric field or an
\* unreadable summary yields a list of exactly one warning, and the list
\* never holds more than one.
C8_AsStated ==
    Finished("validate_balances") =>
        /\ pc = "return"
        /\ Len(warnings) <= 1
        /\ (summary.t # "dict" \/ HasStr(summary)) => Len(warnings) = 1

\* C8, amended: validate_balances never raises and returns at most one
\* warning; an unreadable summary or a field holding a non-empty
\* non-numeric value yields exactly the one "Balance validation error"
\* warning, while an empty string counts as 0 like a missing field.
C8_ValidateNeverRaises ==
    Finished("validate_balances") =>
        /\ pc = "return"
        /\ Len(warnings) <= 1
        /\ (summary.t # "dict" \/ HasText(summary)) => warnings = <<ErrorWarning>>
        /\ summary.t = "dict" => warnings = validate_balances(WithoutEmpty(summary))

\* a summary with a text field next to an empty string
C8_Witness ==
    /\ Returned("validate_balances")
    /\ summary.t = "dict"
    /\ summary.total_debits = Str(3)
    /\ summary.opening_balance = Str(0)
    /\ warnings = <<ErrorWarning>>

\* the score the claim gives a candidate
ScoreOf(a) == avg_conf(data[a])
Failed(a) == data[a].t = "raise" \/ \A k \in 1..Len(data[a].v) : data[a].v[k] = -1
IndexOf(a) == CHOOSE k \in 1..Len(Angles) : Angles[k] = a
Unavailable == osd.t = "raise" \/ (osd.t = "num" /\ osd.v \notin AngleSet)

\* C4: with the primary detector unavailable the resolved angle is the
\* candidate of greatest score, the first one in the order 0, 90, 180, 270
\* on a tie; a candidate without a recognized token or whose pass raises
\* scores -1; when all four score -1 the angle is 0 and the image comes back
\* unrotated, without raising.
C4_FallbackAngle ==
    (Finished("detect_and_correct_rotation") /\ Unavailable) =>
        /\ pc = "return"
        /\ rotated.scored
        /\ \A a \in AngleSet :
            /\ ~score_gt(ScoreOf(a), ScoreOf(rotated.angle))
            /\ IndexOf(a) < IndexOf(rotated.angle) => score_lt(ScoreOf(a), ScoreOf(rotated.angle))
            /\ Failed(a) => rotated.scores[a] = Score(-1, 1)
            /\ ~Failed(a) => rotated.scores[a].n >= 0
        /\ (\A a \in AngleSet : Failed(a)) =>
               rotated.angle = 0 /\ rotated.img = exif_transpose(pil_img)
        /\ rotated.img = rot(exif_transpose(pil_img), rotated.angle)

\* a tie for the greatest score between 90 and 270, 0 and 180 below
C4_Witness ==
    /\ Returned("detect_and_correct_rotation")
    /\ Unavailable
    /\ ScoreOf(90) = ScoreOf(270)
    /\ score_gt(ScoreOf(90), ScoreOf(0))
    /\ score_gt(ScoreOf(90), ScoreOf(180))
    /\ rotated.angle = 90
    /\ rotated.img.turn = 90

\* the image is upright and reads best as it is
Upright ==
    /\ pil_img.exif = 1
    /\ \A a \in AngleSet \ {0} : score_gt(ScoreOf(0), ScoreOf(a))

\* C5 as stated: an upright image that reads best at 0 degrees gets angle 0
\* and comes back unmodified, whatever the primary detector reports.
C5_AsStated ==
    (Returned("detect_and_correct_rotation") /\ Upright) =>
        rotated.angle = 0 /\ rotated.img = pil_img

\* C5, amended: an upright image that reads best at 0 degrees gets angle 0
\* and comes back unmodified when the primary detector reports 0, an invalid
\* value or fails; a valid angle it reports is applied as it is.
C5_UprightKept ==
    (Returned("detect_and_correct_rotation") /\ Upright) =>
        /\ (Unavailable \/ osd_angle(osd) = Num(0)) =>
               rotated.angle = 0 /\ rotated.img = pil_img
        /\ ~Unavailable => rotated.angle = osd_angle(osd).v /\ ~rotated.scored

\* an upright image, the detector failing, the other rotations readable too
C5_Witness ==
    /\ Returned("detect_and_correct_rotation")
    /\ Upright
    /\ osd.t = "raise"
    /\ \A a \in AngleSet : ~Failed(a)
    /\ rotated.angle = 0
    /\ rotated.img = pil_img

Failures(l) == {k \in 1..Len(l) : l[k].t = "exc"}

\* C10: retry_call calls func at most retries + 1 times; it returns the
\* value of the first call that succeeds, which is the last call made, and
\* it raises only after retries + 1 failed calls, with the exception of the
\* last one.
C10_RetryCall ==
    op = "retry_call" =>
        /\ Len(log) <= Max(retries + 1, 0)
        /\ \A k \in 1..(Len(log) - 1) : log[k].t = "exc"
        /\ (pc = "return" /\ log # <<>>) =>
               log[Len(log)].t = "ok" /\ result = log[Len(log)]
        /\ (pc = "return" /\ log = <<>>) => retries < 0 /\ result = NoneV
        /\ pc = "raise" =>
               /\ Len(log) = retries + 1
               /\ Failures(log) = 1..Len(log)
               /\ result = log[Len(log)]
        /\ pc \in {"call", "sleep"} => Failures(log) = 1..Len(log)

\* every round used up: retries failures, then the last call fails too
C10_Witness ==
    /\ op = "retry_call"
    /\ pc = "raise"
    /\ retries = MaxRetries
    /\ Len(log) = MaxRetries + 1
    /\ log[1] # log[Len(log)]

\* ---- gemini_vision_ocr ----

OcrRun == op = "gemini_vision_ocr"

\* page k failed: its rotation, its encoding or its remote call raised, or
\* the text of the response was not a string
PageFailed(k) ==
    \/ images[k].mode # "RGB"
    \/ events[k].encode = "raise"
    \/ events[k].response.t = "raise"
    \/ events[k].response.t = "num" /\ events[k].response.v # 0

ResponseText(k) ==
    IF events[k].response.t = "str" THEN events[k].response.v ELSE <<>>

Trimmed(s) ==
    /\ s # <<>> => ~is_space(s[1]) /\ ~is_space(s[Len(s)])

\* s is t without the white space around it
IsStripOf(s, t) ==
    /\ Trimmed(s)
    /\ \E a, b \in 0..Len(t) :
        /\ a + Len(s) + b = Len(t)
        /\ \A j \in 1..Len(s) : s[j] = t[a + j]
        /\ \A j \in (1..a) \cup ((a + Len(s) + 1)..Len(t)) : is_space(t[j])

Cuts(s) == {0, Len(s) + 1} \cup {k \in 1..Len(s) : s[k] = PAGE_BREAK}
NthCut(s, j) == CHOOSE k \in Cuts(s) : Cardinality({b \in Cuts(s) : b < k}) = j
Slot(s, j) == SubSeq(s, NthCut(s, j - 1) + 1, NthCut(s, j) - 1)

\* C11: gemini_vision_ocr never raises because of a page. Whatever pages fail
\* in rotation, encoding or the remote call, the pages are taken in order and
\* each processed page has exactly one text and one metadata entry at its
\* position, numbered 1..n; a failed page has the empty text and an entry with
\* an error field, a page that did not fail has the stripped text of its
\* response and an entry without error, whatever happened to earlier pages;
\* the call returns after the last page, and the returned text has exactly one
\* slot per page, holding that page's text.
C11_OcrEveryPage ==
    OcrRun =>
        /\ pc \in {"call", "return"}
        /\ i - 1 <= Len(images)
        /\ Len(pages_text) = i - 1
        /\ Len(meta) = i - 1
        /\ Len(events) = i - 1
        /\ \A k \in 1..(i - 1) :
            /\ meta[k].page = k
            /\ PageFailed(k) =>
                /\ pages_text[k] = <<>>
                /\ meta[k].keys = {"page", "error"}
            /\ ~PageFailed(k) =>
                /\ IsStripOf(pages_text[k], ResponseText(k))
                /\ meta[k].keys = {"page", "source", "rotation_applied"}
                /\ meta[k].source = MODEL_VISION
                /\ meta[k].rotation_applied
        /\ pc = "return" =>
            /\ i - 1 = Len(images)
            /\ images = <<>> => full_text = <<>>
            /\ images # <<>> =>
                /\ Cardinality(Cuts(full_text)) = Len(images) + 1
                /\ \A k \in 1..Len(images) : Slot(full_text, k) = pages_text[k]

\* a returned run of three pages or more: the first could not be rotated, the
\* second lost its remote call, the third was read
C11_Witness ==
    /\ OcrRun
    /\ pc = "return"
    /\ Len(images) >= 3
    /\ images[1].mode = "L"
    /\ images[2].mode = "RGB" /\ events[2].encode = "ok" /\ events[2].response.t = "raise"
    /\ ~PageFailed(3)
    /\ pages_text[3] # <<>>
    /\ Slot(full_text, 2) = <<>>
    /\ Slot(full_text, 3) = pages_text[3]

====
